---- MODULE Spec2Model ----
(***************************************************************************)
(* Verification model of MC Extreme (mcextreme.cu: the photon transport     *)
(* kernel mcx_main_loop and its launch in main) and of the Mie scattering   *)
(* precomputation (Mie, Dn_up, Dn_down).                                    *)
(*                                                                         *)
(* Single-precision values are modelled as fixed-point integers: the value  *)
(* v is the integer v * FUnit, rounded to the nearest unit.  +inf and NaN   *)
(* are the two reserved integers FInf and FNaN.                             *)
(***************************************************************************)
EXTENDS Integers, Naturals, Sequences, FiniteSets, TLC

\* ------------------------------------------------------------------------
\* Bounds of the model
\* ------------------------------------------------------------------------
NWorkers == 2        \* concurrent photon workers of the parallel runs
ParMoves == 2        \* totalmove of the parallel runs
SeqMoves == 4        \* totalmove of the single-worker runs
NANGLES == 3         \* sampled scattering angles: the length of the per-angle arrays

\* ------------------------------------------------------------------------
\* Program constants
\* ------------------------------------------------------------------------
DIMX == 128
DIMY == 128
DIMZ == 128
DIMYZ == DIMY * DIMZ
DIMXYZ == DIMX * DIMY * DIMZ
NRS == 1001          \* MiePoly: sampled radii

\* ------------------------------------------------------------------------
\* float: fixed-point arithmetic with +inf and NaN
\* ------------------------------------------------------------------------
FUnit == 10000
FInf == 2000000000
FNaN == -2000000000

F(n) == n * FUnit

IsNaN(a) == a = FNaN
IsFinite(a) == a # FNaN /\ a # FInf /\ a # -FInf

Abs(a) == IF a < 0 THEN -a ELSE a
Sgn(a) == IF a < 0 THEN -1 ELSE 1

\* n / d rounded to the nearest integer (d > 0)
Rnd(n, d) == (2 * n + d) \div (2 * d)

\* |a| * |b| / FUnit without leaving 32 bits: the larger operand is split
MulAbs(a, b) ==
    LET hi == IF a >= b THEN a ELSE b
        lo == IF a >= b THEN b ELSE a
    IN  (hi \div FUnit) * lo + Rnd((hi % FUnit) * lo, FUnit)

\* comparisons: every comparison with NaN is false
FLt(a, b) == a # FNaN /\ b # FNaN /\ a < b
FGt(a, b) == FLt(b, a)
FLe(a, b) == a # FNaN /\ b # FNaN /\ a <= b

FAdd(a, b) ==
    IF a = FNaN \/ b = FNaN THEN FNaN
    ELSE IF Abs(a) = FInf /\ Abs(b) = FInf THEN (IF a = b THEN a ELSE FNaN)
    ELSE IF Abs(a) = FInf THEN a
    ELSE IF Abs(b) = FInf THEN b
    ELSE a + b

FNeg(a) == IF a = FNaN THEN FNaN ELSE -a

FSub(a, b) == FAdd(a, FNeg(b))

FMul(a, b) ==
    IF a = FNaN \/ b = FNaN THEN FNaN
    ELSE IF Abs(a) = FInf \/ Abs(b) = FInf
         THEN (IF a = 0 \/ b = 0 THEN FNaN ELSE Sgn(a) * Sgn(b) * FInf)
    ELSE Sgn(a) * Sgn(b) * MulAbs(Abs(a), Abs(b))

\* __fdividef(a, b): 0/0 and inf/inf are NaN, x/0 is +-inf
GPUDIV(a, b) ==
    IF a = FNaN \/ b = FNaN THEN FNaN
    ELSE IF b = 0 THEN (IF a = 0 THEN FNaN ELSE Sgn(a) * FInf)
    ELSE IF Abs(a) = FInf THEN (IF Abs(b) = FInf THEN FNaN ELSE Sgn(a) * Sgn(b) * FInf)
    ELSE IF Abs(b) = FInf THEN 0
    ELSE Sgn(a) * Sgn(b) * Rnd(Abs(a) * FUnit, Abs(b))

\* floorf(a), as an integer count of voxels
Floorf(a) == a \div FUnit

\* integer square root of n >= 0 by bisection: the k with k*k <= n < (k+1)*(k+1)
RECURSIVE ISqrtIn(_, _, _)
ISqrtIn(n, lo, hi) ==
    IF lo >= hi THEN lo
    ELSE LET mid == (lo + hi + 1) \div 2
         IN  IF mid * mid <= n THEN ISqrtIn(n, mid, hi) ELSE ISqrtIn(n, lo, mid - 1)

\* sqrtf(a) for 0 <= a <= 4
FSqrt(a) == ISqrtIn(a * FUnit, 0, 2 * FUnit)

\* rsqrtf(a): 1 / sqrt(a)
Rsqrtf(a) ==
    IF a = FNaN \/ a < 0 THEN FNaN
    ELSE IF a = 0 THEN FInf
    ELSE GPUDIV(FUnit, FSqrt(a))

\* expf(-x) for a small x >= 0, by its series up to the cubic term
ExpNeg(x) ==
    IF x = FNaN THEN FNaN
    ELSE IF x = FInf THEN 0
    ELSE LET x2 == MulAbs(x, x)
             x3 == MulAbs(x2, x)
             v  == FUnit - x + Rnd(x2, 2) - Rnd(x3, 6)
         IN  IF v < 0 THEN 0 ELSE v

\* log(2)
Ln2 == Rnd(6931 * FUnit, 100 * 100)

\* sum of y^k / k for k = n .. 16 (yk is y^n), 0 <= y <= 1/2
RECURSIVE LnTerms(_, _, _)
LnTerms(y, yk, n) ==
    IF n > 16 \/ yk = 0 THEN 0
    ELSE Rnd(yk, n) + LnTerms(y, MulAbs(yk, y), n + 1)

\* -logf(u) for 0 <= u <= 1: u is doubled k times into [1/2, 1], and
\* -log(u) = k * log(2) - log(1 - y) with y = 1 - u * 2^k
RECURSIVE NegLogIn(_, _)
NegLogIn(u, k) ==
    IF 2 * u <= FUnit THEN NegLogIn(2 * u, k + 1)
    ELSE k * Ln2 + LnTerms(FUnit - u, FUnit - u, 1)

NegLogf(u) ==
    IF u = FNaN THEN FNaN
    ELSE IF u = 0 THEN FInf
    ELSE IF u >= FUnit THEN 0
    ELSE NegLogIn(u, 0)

\* ------------------------------------------------------------------------
\* mt19937s(): a 32-bit unsigned random number, kept as its two 16-bit
\* halves <<hi, lo>>
\* ------------------------------------------------------------------------
Half == 65536

\* GPUDIV((float)ran, MAX_MT_RAND): ran / 2^32 rounded to the float grid.
\* The largest values of ran round up to 1.
RanUnit(ran) == Rnd(ran[1] * FUnit + (ran[2] * FUnit) \div Half, Half)

\* sin(a) and cos(a) for 0 <= a <= pi/2, by their series
SinSeries(a) ==
    LET a2 == MulAbs(a, a)
        a3 == MulAbs(a2, a)
        a5 == MulAbs(a3, a2)
        a7 == MulAbs(a5, a2)
        a9 == MulAbs(a7, a2)
    IN  a - Rnd(a3, 6) + Rnd(a5, 120) - Rnd(a7, 5040) + Rnd(a9, 362880)

CosSeries(a) ==
    LET a2 == MulAbs(a, a)
        a4 == MulAbs(a2, a2)
        a6 == MulAbs(a4, a2)
        a8 == MulAbs(a6, a2)
    IN  FUnit - Rnd(a2, 2) + Rnd(a4, 24) - Rnd(a6, 720) + Rnd(a8, 40320)

\* phi = GPUDIV(TWO_PI*ran, MAX_MT_RAND); sincosf(phi, &sphi, &cphi):
\* the quadrant of phi is ran's top two bits, the rest is the angle inside it
SinCosPhi(ran) ==
    LET quad == ran[1] \div (Half \div 4)
        rest == ran[1] % (Half \div 4)
        a    == Rnd(rest * Rnd(15708 * FUnit, 100 * 100), Half \div 4)
        s    == SinSeries(a)
        c    == CosSeries(a)
    IN  CASE quad = 0 -> [sphi |-> s,  cphi |-> c]
          [] quad = 1 -> [sphi |-> c,  cphi |-> -s]
          [] quad = 2 -> [sphi |-> -s, cphi |-> -c]
          [] OTHER    -> [sphi |-> -c, cphi |-> s]

\* theta = acosf(foo); stheta = sinf(theta): NaN outside [-1, 1]
SinAcos(foo) ==
    IF foo = FNaN \/ Abs(foo) > FUnit THEN FNaN
    ELSE FSqrt(FUnit - MulAbs(Abs(foo), Abs(foo)))

\* The Henyey-Greenstein cosine: foo of lines 114-116
HGCosTheta(gg, gg2, ggx2, ran) ==
    LET foo1 == GPUDIV(FSub(FUnit, gg2),
                       FAdd(FSub(FUnit, gg), FMul(ggx2, RanUnit(ran))))
        foo2 == FMul(foo1, foo1)
    IN  GPUDIV(FSub(FAdd(FUnit, gg2), foo2), ggx2)

\* ------------------------------------------------------------------------
\* The transport kernel mcx_main_loop and its launch
\* ------------------------------------------------------------------------
VARIABLES
    nworkers,   \* number of threads of the launch
    totalmove,  \* kernel argument: micro-steps per thread
    gg,         \* kernel argument: anisotropy g
    p0,         \* kernel argument: launch position and weight
    media,      \* media[]: the material of every voxel, as two z-layers
    field,      \* field[]: the fluence grid; cells not in its domain hold 0
    n_pos, n_dir, n_len,           \* the per-thread arrays of the host
    npos, ndir, nlen,              \* the thread's registers
    idx1d, idxorig, i,
    fld,        \* the value of field[idx1d] loaded by +=
    val,        \* the value += adds
    pc,         \* where the thread is in the loop body
    drew,       \* this micro-step took the branch of line 94
    hg,         \* this micro-step took the branch of line 105
    ndraw,      \* free flights drawn since the photon's launch
    launched,   \* photons launched so far: the first ones and the relaunches
    deposits    \* per cell, the sum of every value a thread added

Workers == 1 .. nworkers

minstep == F(1)
lmax == F(100)
MINUS_SAME_VOXEL == F(-9999)
c0 == [x |-> 0, y |-> 0, z |-> F(1), w |-> 0]
maxidx == [x |-> F(DIMX - 1), y |-> F(DIMY - 1), z |-> F(DIMZ - 1)]
ggMain == Rnd(98 * FUnit, 100)
p0Main == [x |-> F(10), y |-> F(10), z |-> F(0), w |-> F(1)]
mediaMain == [cut |-> 0, lo |-> 1, hi |-> 1]

\* kernel arguments gg*gg and 2.f*gg
gg2 == FMul(gg, gg)
ggx2 == FMul(F(2), gg)

\* property[]: (mua, mus) per material; the first is air
gproperty(mediaid) ==
    CASE mediaid = 0 -> [x |-> 0, y |-> 0]
      [] mediaid = 1 -> [x |-> Rnd(9 * FUnit, 1000), y |-> Rnd(75 * FUnit, 100)]
      [] mediaid = 2 -> [x |-> Rnd(6 * FUnit, 1000), y |-> Rnd(75 * FUnit, 100)]
      [] mediaid = 3 -> [x |-> Rnd(9 * FUnit, 1000), y |-> Rnd(95 * FUnit, 100)]
      [] OTHER       -> [x |-> 0, y |-> 0]

\* media[idx]: the voxels with z index below media.cut hold media.lo
MediaAt(idx) == IF idx % DIMZ < media.cut THEN media.lo ELSE media.hi

\* field[idx]
FieldAt(idx) == IF idx \in DOMAIN field THEN field[idx] ELSE 0
DepositsAt(idx) == IF idx \in DOMAIN deposits THEN deposits[idx] ELSE 0

\* the grid g with v written to cell idx
GridPut(g, idx, v) ==
    LET dom == (DOMAIN g \cup {idx})
    IN  [c \in {d \in dom : (IF d = idx THEN v ELSE g[d]) # 0} |->
            IF c = idx THEN v ELSE g[c]]

\* int(floorf(p.x)*DIMYZ+floorf(p.y)*DIMZ+floorf(p.z)); the conversion of NaN
\* to int gives 0 on the device
VoxelIndex(p) ==
    IF IsNaN(p.x) \/ IsNaN(p.y) \/ IsNaN(p.z) THEN 0
    ELSE Floorf(p.x) * DIMYZ + Floorf(p.y) * DIMZ + Floorf(p.z)

\* The direction after a scattering event (lines 105-139): ndir0 is the
\* incoming direction, ranP and ranT the two random numbers drawn
ScatterDir(ndir0, ranP, ranT) ==
    LET sc     == SinCosPhi(ranP)
        sphi   == sc.sphi
        cphi   == sc.cphi
        foo    == HGCosTheta(gg, gg2, ggx2, ranT)
        stheta == SinAcos(foo)
        ctheta == foo
        tmp0   == FSub(FUnit, FMul(ndir0.z, ndir0.z))
        tmp1   == Rsqrtf(tmp0)
        tmp2   == FMul(stheta, tmp1)
        turned ==
            IF FGt(ndir0.z, -FUnit) /\ FLt(ndir0.z, FUnit)
            THEN IF FGt(stheta, 0)
                 THEN [x |-> FAdd(FMul(tmp2, FSub(FMul(FMul(ndir0.x, ndir0.z), cphi),
                                                  FMul(ndir0.y, sphi))),
                                  FMul(ndir0.x, ctheta)),
                       y |-> FAdd(FMul(tmp2, FAdd(FMul(FMul(ndir0.y, ndir0.z), cphi),
                                                  FMul(ndir0.x, sphi))),
                                  FMul(ndir0.y, ctheta)),
                       z |-> FAdd(FMul(FMul(FNeg(tmp2), tmp0), cphi),
                                  FMul(ndir0.z, ctheta)),
                       w |-> ndir0.w]
                 ELSE ndir0
            ELSE [x |-> FMul(stheta, cphi), y |-> FMul(stheta, sphi),
                  z |-> ctheta, w |-> ndir0.w]
    IN  [turned EXCEPT !.w = @ + 1]

\* the numbers mt19937s() returns in the model
RanLenSet == { <<0, 0>>, <<Half - 1, Half - 1>>, <<39750, 0>>, <<8869, 0>> }
RanPhiSet == { <<0, 0>>, <<Half \div 4, 0>> }
RanThetaSet == { <<0, 0>>, <<Half - 1, Half - 1>>, <<655, 0>> }

\* the state of a call of Mie
VARIABLES
    mie_x,      \* argument x
    mie_m,      \* m = make_Dcomplex(mx, 0.0)
    mie_pc,     \* where the call is
    mie_err,    \* the error raised, or NoError
    mie_heap,   \* the transient arrays allocated and not yet freed
    mie_out,    \* the outputs written so far, among smatrix, qsca, g
    mie_small,  \* small_Mie was called
    mie_rec,    \* the recurrence that filled D: "up", "down" or "none"
    nstop,
    mie_D,      \* the indices of D written by the recurrence
    mie_n       \* the loop variable n of the coefficient loop

mvars == << mie_x, mie_m, mie_pc, mie_err, mie_heap, mie_out, mie_small,
            mie_rec, nstop, mie_D, mie_n >>

kvars == << nworkers, totalmove, gg, p0, media, field, n_pos, n_dir, n_len,
            npos, ndir, nlen, idx1d, idxorig, i, fld, val, pc, drew, hg,
            ndraw, launched, deposits >>

\* the state of a call of MiePoly or WhittleMattern
VARIABLES
    sm_fn,      \* the function called
    sm_pc,      \* where the call is
    sm_ir,      \* the loop variable ir of MiePoly
    sm_i,       \* the loop variable i
    sm_len,     \* the number of elements of every array, 0 when not allocated
    sm_acc      \* the elements the last step read or wrote, as <<array, index>>

avars == << sm_fn, sm_pc, sm_ir, sm_i, sm_len, sm_acc >>

\* the launch positions and the media of the runs checked
P0Set == { p0Main, [p0Main EXCEPT !.z = F(DIMZ - 2)],
           [x |-> F(DIMX - 1), y |-> F(DIMY - 1), z |-> F(DIMZ - 2), w |-> F(1)] }
MediaSet == { mediaMain, [cut |-> 1, lo |-> 1, hi |-> 3], [cut |-> 0, lo |-> 0, hi |-> 0] }

\* main up to the kernel launch, and the kernel's prologue (lines 76-91)
KernelInit(nw, tm, gs, ps, ms) ==
    /\ nworkers = nw
    /\ totalmove = tm
    /\ gg \in gs
    /\ p0 \in ps
    /\ media \in ms
    /\ field = << >>
    /\ n_pos = [w \in 1 .. nw |-> p0]
    /\ n_dir = [w \in 1 .. nw |-> c0]
    /\ n_len = [w \in 1 .. nw |-> [x |-> 0, y |-> 0, z |-> 0]]
    /\ npos = n_pos
    /\ ndir = n_dir
    /\ nlen = n_len
    /\ idx1d = [w \in 1 .. nw |-> VoxelIndex(n_pos[w])]
    /\ idxorig = idx1d
    /\ i = [w \in 1 .. nw |-> 0]
    /\ fld = [w \in 1 .. nw |-> 0]
    /\ val = [w \in 1 .. nw |-> 0]
    /\ pc = [w \in 1 .. nw |-> IF 0 < tm THEN "scatter" ELSE "exit"]
    /\ drew = [w \in 1 .. nw |-> FALSE]
    /\ hg = [w \in 1 .. nw |-> FALSE]
    /\ ndraw = [w \in 1 .. nw |-> 0]
    /\ launched = nw
    /\ deposits = << >>

\* lines 94-141 when the photon is still in its jump: nothing is drawn
ScatterNone(w) ==
    /\ pc[w] = "scatter"
    /\ ~ FLe(nlen[w].x, 0)
    /\ drew' = [drew EXCEPT ![w] = FALSE]
    /\ hg' = [hg EXCEPT ![w] = FALSE]
    /\ pc' = [pc EXCEPT ![w] = "voxel"]
    /\ UNCHANGED << avars, mvars, nworkers, totalmove, gg, p0, media, field, n_pos, n_dir, n_len,
                    npos, ndir, nlen, idx1d, idxorig, i, fld, val, ndraw,
                    launched, deposits >>

\* lines 94-104 with the test of line 105 false: a new jump, the old direction
ScatterDraw(w) ==
    /\ pc[w] = "scatter"
    /\ FLe(nlen[w].x, 0)
    /\ ~ FLt(npos[w].w, F(1))
    /\ \E ran \in RanLenSet :
          nlen' = [nlen EXCEPT ![w].x = NegLogf(RanUnit(ran))]
    /\ drew' = [drew EXCEPT ![w] = TRUE]
    /\ hg' = [hg EXCEPT ![w] = FALSE]
    /\ ndraw' = [ndraw EXCEPT ![w] = @ + 1]
    /\ pc' = [pc EXCEPT ![w] = "voxel"]
    /\ UNCHANGED << avars, mvars, nworkers, totalmove, gg, p0, media, field, n_pos, n_dir, n_len,
                    npos, ndir, idx1d, idxorig, i, fld, val, launched, deposits >>

\* lines 94-140 with the test of line 105 true: a new jump and a new direction
ScatterHG(w) ==
    /\ pc[w] = "scatter"
    /\ FLe(nlen[w].x, 0)
    /\ FLt(npos[w].w, F(1))
    /\ \E ran \in RanLenSet :
          nlen' = [nlen EXCEPT ![w].x = NegLogf(RanUnit(ran))]
    /\ \E ranP \in RanPhiSet, ranT \in RanThetaSet :
          ndir' = [ndir EXCEPT ![w] = ScatterDir(ndir[w], ranP, ranT)]
    /\ drew' = [drew EXCEPT ![w] = TRUE]
    /\ hg' = [hg EXCEPT ![w] = TRUE]
    /\ ndraw' = [ndraw EXCEPT ![w] = @ + 1]
    /\ pc' = [pc EXCEPT ![w] = "voxel"]
    /\ UNCHANGED << avars, mvars, nworkers, totalmove, gg, p0, media, field, n_pos, n_dir, n_len,
                    npos, idx1d, idxorig, i, fld, val, launched, deposits >>

\* lines 142-150: the jump ends inside the voxel
InVoxel(pos, dir, len3, prop) ==
    LET step == GPUDIV(len3.x, prop.y)
    IN  [npos |-> [x |-> FAdd(pos.x, FMul(dir.x, step)),
                   y |-> FAdd(pos.y, FMul(dir.y, step)),
                   z |-> FAdd(pos.z, FMul(dir.z, step)),
                   w |-> FMul(pos.w, ExpNeg(FMul(prop.x, step)))],
         nlen |-> [len3 EXCEPT !.x = MINUS_SAME_VOXEL, !.y = FAdd(@, step)]]

\* lines 151-155: the photon moves on by minstep
FullStep(pos, dir, len3, prop) ==
    [npos |-> [x |-> FAdd(pos.x, dir.x),
               y |-> FAdd(pos.y, dir.y),
               z |-> FAdd(pos.z, dir.z),
               w |-> FMul(pos.w, ExpNeg(FMul(prop.x, minstep)))],
     nlen |-> [len3 EXCEPT !.x = FSub(@, FMul(minstep, prop.y)),
                           !.y = FAdd(@, minstep)]]

\* EndsInVoxel with a jump of exactly len ending in the voxel too
EndsInVoxelOrAt(len, r) == FLe(r, len)

\* line 146: len>nlen.x
EndsInVoxel(len, r) == FGt(len, r)

\* lines 142-150 and 156: the voxel step when the jump ends in this voxel
VoxelIn(w) ==
    /\ pc[w] = "voxel"
    /\ LET mediaid == MediaAt(idx1d[w])
           prop    == gproperty(mediaid)
           len     == FMul(minstep, prop.y)
           r       == InVoxel(npos[w], ndir[w], nlen[w], prop)
       IN  /\ EndsInVoxel(len, nlen[w].x)
           /\ npos' = [npos EXCEPT ![w] = r.npos]
           /\ nlen' = [nlen EXCEPT ![w] = r.nlen]
    /\ pc' = [pc EXCEPT ![w] = "bound"]
    /\ UNCHANGED << avars, mvars, nworkers, totalmove, gg, p0, media, field, n_pos, n_dir,
                    n_len, ndir, idx1d, idxorig, i, fld, val, drew, hg, ndraw,
                    launched, deposits >>

\* lines 142-146 and 151-156: the voxel step otherwise
VoxelFull(w) ==
    /\ pc[w] = "voxel"
    /\ LET mediaid == MediaAt(idx1d[w])
           prop    == gproperty(mediaid)
           len     == FMul(minstep, prop.y)
           r       == FullStep(npos[w], ndir[w], nlen[w], prop)
       IN  /\ ~ EndsInVoxel(len, nlen[w].x)
           /\ npos' = [npos EXCEPT ![w] = r.npos]
           /\ nlen' = [nlen EXCEPT ![w] = r.nlen]
           /\ idx1d' = [idx1d EXCEPT ![w] = VoxelIndex(r.npos)]
    /\ pc' = [pc EXCEPT ![w] = "bound"]
    /\ UNCHANGED << avars, mvars, nworkers, totalmove, gg, p0, media, field, n_pos, n_dir,
                    n_len, ndir, idxorig, i, fld, val, drew, hg, ndraw,
                    launched, deposits >>

\* HitBoundary with the grid's far faces at DIMX, DIMY, DIMZ
HitBoundaryWholeBox(pos, len3) ==
    \/ FGt(len3.x, lmax)
    \/ FLt(pos.x, 0) \/ FLt(pos.y, 0) \/ FLt(pos.z, 0)
    \/ FGt(pos.x, F(DIMX)) \/ FGt(pos.y, F(DIMY)) \/ FGt(pos.z, F(DIMZ))

\* the test of line 157
HitBoundary(pos, len3) ==
    \/ FGt(len3.x, lmax)
    \/ FLt(pos.x, 0) \/ FLt(pos.y, 0) \/ FLt(pos.z, 0)
    \/ FGt(pos.x, maxidx.x) \/ FGt(pos.y, maxidx.y) \/ FGt(pos.z, maxidx.z)

\* DepositValue with the weight added on every step
DepositValueAlways(pos, len3) == pos.w

\* line 164: the value += adds
DepositValue(pos, len3) == IF FGt(len3.x, 0) THEN pos.w ELSE 0

\* line 161: the residual, the path length and the relaunch counter
RelaunchLen(len3) == [x |-> 0, y |-> 0, z |-> len3.z + 1]

\* the loop's i++ and test
LoopNext(w) ==
    /\ i' = [i EXCEPT ![w] = @ + 1]
    /\ pc' = [pc EXCEPT ![w] = IF i[w] + 1 < totalmove THEN "scatter" ELSE "exit"]

\* lines 157-162: a new photon is launched
Relaunch(w) ==
    /\ pc[w] = "bound"
    /\ HitBoundary(npos[w], nlen[w])
    /\ npos' = [npos EXCEPT ![w] = p0]
    /\ ndir' = [ndir EXCEPT ![w] = c0]
    /\ nlen' = [nlen EXCEPT ![w] = RelaunchLen(nlen[w])]
    /\ idx1d' = [idx1d EXCEPT ![w] = idxorig[w]]
    /\ ndraw' = [ndraw EXCEPT ![w] = 0]
    /\ launched' = launched + 1
    /\ LoopNext(w)
    /\ UNCHANGED << avars, mvars, nworkers, totalmove, gg, p0, media, field, n_pos, n_dir, n_len,
                    idxorig, fld, val, drew, hg, deposits >>

\* line 164, first half: field[idx1d] is read and the sum is formed
Load(w) ==
    /\ pc[w] = "bound"
    /\ ~ HitBoundary(npos[w], nlen[w])
    /\ fld' = [fld EXCEPT ![w] = FieldAt(idx1d[w])]
    /\ val' = [val EXCEPT ![w] = DepositValue(npos[w], nlen[w])]
    /\ pc' = [pc EXCEPT ![w] = "store"]
    /\ UNCHANGED << avars, mvars, nworkers, totalmove, gg, p0, media, field, n_pos, n_dir, n_len,
                    npos, ndir, nlen, idx1d, idxorig, i, drew, hg, ndraw,
                    launched, deposits >>

\* line 164, second half: the sum is written to field[idx1d]
Store(w) ==
    /\ pc[w] = "store"
    /\ field' = GridPut(field, idx1d[w], FAdd(fld[w], val[w]))
    /\ deposits' = GridPut(deposits, idx1d[w], DepositsAt(idx1d[w]) + val[w])
    /\ LoopNext(w)
    /\ UNCHANGED << avars, mvars, nworkers, totalmove, gg, p0, media, n_pos, n_dir, n_len,
                    npos, ndir, nlen, idx1d, idxorig, fld, val, drew, hg, ndraw,
                    launched >>

\* lines 168-170: the registers go back to the arrays
Finish(w) ==
    /\ pc[w] = "exit"
    /\ n_pos' = [n_pos EXCEPT ![w] = npos[w]]
    /\ n_dir' = [n_dir EXCEPT ![w] = ndir[w]]
    /\ n_len' = [n_len EXCEPT ![w] = nlen[w]]
    /\ pc' = [pc EXCEPT ![w] = "done"]
    /\ UNCHANGED << avars, mvars, nworkers, totalmove, gg, p0, media, field, npos, ndir, nlen,
                    idx1d, idxorig, i, fld, val, drew, hg, ndraw, launched, deposits >>

KernelNext ==
    \/ \E w \in Workers : ScatterNone(w)
    \/ \E w \in Workers : ScatterDraw(w)
    \/ \E w \in Workers : ScatterHG(w)
    \/ \E w \in Workers : VoxelIn(w)
    \/ \E w \in Workers : VoxelFull(w)
    \/ \E w \in Workers : Relaunch(w)
    \/ \E w \in Workers : Load(w)
    \/ \E w \in Workers : Store(w)
    \/ \E w \in Workers : Finish(w)

\* ------------------------------------------------------------------------
\* Mie(x, mx, mu, smatrix, qsca, g) and the recurrences it calls
\* ------------------------------------------------------------------------
vars == << kvars, mvars, avars >>

NoError == [id |-> 0, msg |-> ""]
InvalidInput == [id |-> -6, msg |-> "sphere size must be positive"]
Unvalidated == [id |-> -6, msg |-> "spheres with x>20000 are not validated"]

\* the arguments of the calls checked: x and mx, in units of 1/FUnit
MieXSet == { F(-1), 0, 500, F(1), F(8), F(100), F(20001) }
MieMSet == { 0, F(1), Rnd(133 * FUnit, 100), Rnd(15 * FUnit, 10) }

MieInit ==
    /\ mie_x \in MieXSet
    /\ \E mx \in MieMSet : mie_m = [re |-> mx, im |-> 0]
    /\ mie_pc = "entry"
    /\ mie_err = NoError
    /\ mie_heap = {}
    /\ mie_out = {}
    /\ mie_small = FALSE
    /\ mie_rec = "none"
    /\ nstop = 0
    /\ mie_D = {}
    /\ mie_n = 0

\* the state of the Mie variables while the kernel runs
MieIdle ==
    /\ mie_x = F(1)
    /\ mie_m = [re |-> F(1), im |-> 0]
    /\ mie_pc = "idle"
    /\ mie_err = NoError
    /\ mie_heap = {}
    /\ mie_out = {}
    /\ mie_small = FALSE
    /\ mie_rec = "none"
    /\ nstop = 0
    /\ mie_D = {}
    /\ mie_n = 0

\* cabs(m)
Cabs(m) == FSqrt(FAdd(FMul(m.re, m.re), FMul(m.im, m.im)))

\* SizeNotPositive with x = 0 let through
SizeNegative(x) == FLt(x, 0)

\* the tests of lines 102 and 106
SizeNotPositive(x) == FLe(x, 0)
SizeNotValidated(x) == FGt(x, F(20000))

\* the test of line 110
IsSmall(x, m) ==
    \/ (m.re = 0 /\ FLt(x, Rnd(FUnit, 10)))
    \/ (FGt(m.re, 0) /\ FLt(FMul(Cabs(m), x), Rnd(FUnit, 10)))

\* UpwardStable with the comparison turned round
UpwardStableFlipped(x, m) ==
    FGt(Abs(FMul(m.im, x)),
        FAdd(FMul(FSub(FMul(Rnd(1378 * FUnit, 100), m.re), Rnd(108 * FUnit, 10)), m.re),
             Rnd(39 * FUnit, 10)))

\* the test of line 131
UpwardStable(x, m) ==
    FLt(Abs(FMul(m.im, x)),
        FAdd(FMul(FSub(FMul(Rnd(1378 * FUnit, 100), m.re), Rnd(108 * FUnit, 10)), m.re),
             Rnd(39 * FUnit, 10)))

\* pow(x, 0.33333): the cube root, by bisection
RECURSIVE CbrtIn(_, _, _)
CbrtIn(x, lo, hi) ==
    IF lo >= hi THEN lo
    ELSE LET mid == (lo + hi + 1) \div 2
         IN  IF MulAbs(MulAbs(mid, mid), mid) <= x
             THEN CbrtIn(x, mid, hi) ELSE CbrtIn(x, lo, mid - 1)

\* line 115
NStop(x) == Floorf(FAdd(FAdd(x, FMul(Rnd(405 * FUnit, 100), CbrtIn(x, 0, F(30)))), F(2)))

\* MCX_ERROR(id, msg): the error is raised and the call does not go on
MCX_ERROR(err) ==
    /\ mie_err' = err
    /\ mie_pc' = "failed"

\* lines 102-104
MieCheckPositive ==
    /\ mie_pc = "entry"
    /\ IF SizeNotPositive(mie_x)
       THEN MCX_ERROR(InvalidInput)
       ELSE mie_pc' = "check" /\ mie_err' = mie_err
    /\ UNCHANGED << avars, kvars, mie_x, mie_m, mie_heap, mie_out, mie_small, mie_rec, nstop,
                    mie_D, mie_n >>

\* lines 106-108
MieCheckValidated ==
    /\ mie_pc = "check"
    /\ IF SizeNotValidated(mie_x)
       THEN MCX_ERROR(Unvalidated)
       ELSE mie_pc' = "dispatch" /\ mie_err' = mie_err
    /\ UNCHANGED << avars, kvars, mie_x, mie_m, mie_heap, mie_out, mie_small, mie_rec, nstop,
                    mie_D, mie_n >>

\* lines 110-113: small_Mie writes smatrix, qsca and g, and Mie returns
MieSmall ==
    /\ mie_pc = "dispatch"
    /\ IsSmall(mie_x, mie_m)
    /\ mie_small' = TRUE
    /\ mie_out' = {"smatrix", "qsca", "g"}
    /\ mie_pc' = "returned"
    /\ UNCHANGED << avars, kvars, mie_x, mie_m, mie_err, mie_heap, mie_rec, nstop, mie_D, mie_n >>

\* lines 115-125
MieAlloc ==
    /\ mie_pc = "dispatch"
    /\ ~ IsSmall(mie_x, mie_m)
    /\ nstop' = NStop(mie_x)
    /\ mie_heap' = {"s1", "s2", "pi0", "tau", "pi1"}
    /\ mie_pc' = "D"
    /\ UNCHANGED << avars, kvars, mie_x, mie_m, mie_err, mie_out, mie_small, mie_rec, mie_D, mie_n >>

\* Dn_up: D[0], then D[k] for k = 1 .. nstop-1
Dn_up(ns) == 0 .. ns - 1

\* Dn_down: D[nstop-1], then D[k-1] for k = nstop-1 down to 1
Dn_down(ns) == {ns - 1} \cup { k - 1 : k \in 1 .. ns - 1 }

\* lines 127-146
MieRecurrence ==
    /\ mie_pc = "D"
    /\ IF FGt(mie_m.re, 0)
       THEN /\ mie_heap' = mie_heap \cup {"D"}
            /\ IF UpwardStable(mie_x, mie_m)
               THEN mie_rec' = "up" /\ mie_D' = Dn_up(nstop)
               ELSE mie_rec' = "down" /\ mie_D' = Dn_down(nstop)
       ELSE UNCHANGED << mie_heap, mie_rec, mie_D >>
    /\ mie_out' = mie_out \cup {"qsca", "g"}
    /\ mie_n' = 1
    /\ mie_pc' = "loop"
    /\ UNCHANGED << avars, kvars, mie_x, mie_m, mie_err, mie_small, nstop >>

\* lines 148-199: one pass of the coefficient loop
MieCoefficient ==
    /\ mie_pc = "loop"
    /\ mie_n <= nstop
    /\ mie_n' = mie_n + 1
    /\ UNCHANGED << avars, kvars, mie_x, mie_m, mie_pc, mie_err, mie_heap, mie_out, mie_small,
                    mie_rec, nstop, mie_D >>

\* lines 201-221
MieFinish ==
    /\ mie_pc = "loop"
    /\ mie_n > nstop
    /\ mie_out' = mie_out \cup {"smatrix"}
    /\ mie_heap' = {}
    /\ mie_pc' = "returned"
    /\ UNCHANGED << avars, kvars, mie_x, mie_m, mie_err, mie_small, mie_rec, nstop, mie_D, mie_n >>

MieNext ==
    \/ MieCheckPositive
    \/ MieCheckValidated
    \/ MieSmall
    \/ MieAlloc
    \/ MieRecurrence
    \/ MieCoefficient
    \/ MieFinish

\* ------------------------------------------------------------------------
\* MiePoly and WhittleMattern: the elements of the arrays they read and write
\* ------------------------------------------------------------------------
PolyArrays == { "s11_avg", "s12_avg", "s33_avg", "s43_avg" }
WMArrays == { "s11", "s12", "s33", "s43" }
ArrNames == PolyArrays \cup WMArrays \cup { "radii", "weights", "smatrix", "mu" }

\* calloc(n, ...) for every array of names, and free
Calloc(len, names, n) == [a \in DOMAIN len |-> IF a \in names THEN n ELSE len[a]]
Free(len, names) == Calloc(len, names, 0)

\* the element idx of every array of names
At(names, idx) == { <<a, idx>> : a \in names }

\* the caller's arrays mu and smatrix hold NANGLES elements
ArrInit ==
    /\ sm_fn \in { "MiePoly", "WhittleMattern" }
    /\ sm_pc = "entry"
    /\ sm_ir = 0
    /\ sm_i = 0
    /\ sm_len = [a \in ArrNames |-> IF a \in {"smatrix", "mu"} THEN NANGLES ELSE 0]
    /\ sm_acc = {}

\* the state of these variables while the kernel or Mie runs
ArrIdle ==
    /\ sm_fn = "none"
    /\ sm_pc = "idle"
    /\ sm_ir = 0
    /\ sm_i = 0
    /\ sm_len = [a \in ArrNames |-> 0]
    /\ sm_acc = {}

\* MiePoly, lines 249-258
PolyAlloc ==
    /\ sm_fn = "MiePoly" /\ sm_pc = "entry"
    /\ sm_len' = Calloc(Calloc(sm_len, {"radii", "weights"}, NRS), PolyArrays, NANGLES)
    /\ sm_i' = 0
    /\ sm_acc' = {}
    /\ sm_pc' = "zero"
    /\ UNCHANGED << kvars, mvars, sm_fn, sm_ir >>

\* MiePoly, lines 274-285: for (int i = 0; i < NANGLES; i++)
PolyZero ==
    /\ sm_pc = "zero"
    /\ IF sm_i < NANGLES
       THEN /\ sm_acc' = At(PolyArrays, sm_i)
            /\ sm_i' = sm_i + 1
            /\ UNCHANGED << sm_pc, sm_ir >>
       ELSE /\ sm_acc' = {}
            /\ sm_ir' = 0
            /\ sm_pc' = "radii"
            /\ UNCHANGED sm_i
    /\ UNCHANGED << kvars, mvars, sm_fn, sm_len >>

\* MiePoly, lines 288-295: for (int ir = 0; ir <= (NRS - 1); ir += 1)
PolyRadii ==
    /\ sm_pc = "radii"
    /\ IF sm_ir <= NRS - 1
       THEN /\ sm_acc' = At({"radii", "weights"}, sm_ir)
            /\ sm_ir' = sm_ir + 1
            /\ UNCHANGED sm_pc
       ELSE /\ sm_acc' = {}
            /\ sm_ir' = 0
            /\ sm_pc' = "mie"
    /\ UNCHANGED << kvars, mvars, sm_fn, sm_i, sm_len >>

\* MiePoly, lines 298-302: the radius ir, and the call of Mie, which writes
\* smatrix[0 .. NANGLES-1] (lines 205-210 and 481-491)
PolyMie ==
    /\ sm_pc = "mie"
    /\ IF sm_ir <= NRS - 1
       THEN /\ sm_acc' = At({"radii", "weights"}, sm_ir)
                            \cup { <<"smatrix", k>> : k \in 0 .. NANGLES - 1 }
                            \cup { <<"mu", k>> : k \in 0 .. NANGLES - 1 }
            /\ sm_i' = 0
            /\ sm_pc' = "avg"
       ELSE /\ sm_acc' = {}
            /\ sm_i' = 0
            /\ sm_pc' = "out"
    /\ UNCHANGED << kvars, mvars, sm_fn, sm_ir, sm_len >>

\* MiePoly, lines 303-310: for (int i = 0; i <= NANGLES; i++)
PolyAvg ==
    /\ sm_pc = "avg"
    /\ IF sm_i <= NANGLES
       THEN /\ sm_acc' = At(PolyArrays \cup {"smatrix"}, sm_i)
            /\ sm_i' = sm_i + 1
            /\ UNCHANGED << sm_pc, sm_ir >>
       ELSE /\ sm_acc' = {}
            /\ sm_ir' = sm_ir + 1
            /\ sm_pc' = "mie"
            /\ UNCHANGED sm_i
    /\ UNCHANGED << kvars, mvars, sm_fn, sm_len >>

\* lines 312-328 and 375-391: for (int i = 0; i < NANGLES; i++), from the
\* arrays of names to smatrix, and the sums over mu and smatrix
CopyOut(names) ==
    IF sm_i < NANGLES
    THEN /\ sm_acc' = At(names \cup {"smatrix", "mu"}, sm_i)
                        \cup (IF sm_i = 0 THEN {} ELSE At({"smatrix", "mu"}, sm_i - 1))
         /\ sm_i' = sm_i + 1
         /\ UNCHANGED sm_pc
    ELSE /\ sm_acc' = {}
         /\ sm_pc' = "free"
         /\ UNCHANGED sm_i

\* MiePoly, lines 312-328
PolyOut ==
    /\ sm_fn = "MiePoly" /\ sm_pc = "out"
    /\ CopyOut(PolyArrays)
    /\ UNCHANGED << kvars, mvars, sm_fn, sm_ir, sm_len >>

\* MiePoly, lines 329-336
PolyFree ==
    /\ sm_fn = "MiePoly" /\ sm_pc = "free"
    /\ sm_len' = Free(sm_len, PolyArrays \cup {"radii", "weights"})
    /\ sm_acc' = {}
    /\ sm_pc' = "returned"
    /\ UNCHANGED << kvars, mvars, sm_fn, sm_ir, sm_i >>

\* WhittleMattern, lines 348-351
WMAlloc ==
    /\ sm_fn = "WhittleMattern" /\ sm_pc = "entry"
    /\ sm_len' = Calloc(sm_len, WMArrays, NANGLES)
    /\ sm_acc' = {}
    /\ sm_pc' = "first"
    /\ UNCHANGED << kvars, mvars, sm_fn, sm_ir, sm_i >>

\* WhittleMattern, lines 353-363: the elements at i = 0
WMFirst ==
    /\ sm_pc = "first"
    /\ sm_acc' = At(WMArrays, 0)
    /\ sm_i' = 1
    /\ sm_pc' = "fill"
    /\ UNCHANGED << kvars, mvars, sm_fn, sm_ir, sm_len >>

\* WhittleMattern, lines 366-373: for (i = 1; i <= NANGLES; ++i)
WMFill ==
    /\ sm_pc = "fill"
    /\ IF sm_i <= NANGLES
       THEN /\ sm_acc' = At(WMArrays, sm_i)
            /\ sm_i' = sm_i + 1
            /\ UNCHANGED sm_pc
       ELSE /\ sm_acc' = {}
            /\ sm_i' = 0
            /\ sm_pc' = "out"
    /\ UNCHANGED << kvars, mvars, sm_fn, sm_ir, sm_len >>

\* WhittleMattern, lines 375-391
WMOut ==
    /\ sm_fn = "WhittleMattern" /\ sm_pc = "out"
    /\ CopyOut(WMArrays)
    /\ UNCHANGED << kvars, mvars, sm_fn, sm_ir, sm_len >>

\* WhittleMattern, lines 392-397
WMFree ==
    /\ sm_fn = "WhittleMattern" /\ sm_pc = "free"
    /\ sm_len' = Free(sm_len, WMArrays)
    /\ sm_acc' = {}
    /\ sm_pc' = "returned"
    /\ UNCHANGED << kvars, mvars, sm_fn, sm_ir, sm_i >>

ArrNext ==
    \/ PolyAlloc
    \/ PolyZero
    \/ PolyRadii
    \/ PolyMie
    \/ PolyAvg
    \/ PolyOut
    \/ PolyFree
    \/ WMAlloc
    \/ WMFirst
    \/ WMFill
    \/ WMOut
    \/ WMFree

\* ------------------------------------------------------------------------
\* Specifications
\* ------------------------------------------------------------------------

\* the kernel as main launches it, with NWorkers concurrent threads
Init == KernelInit(NWorkers, ParMoves, {ggMain}, {p0Main}, {mediaMain}) /\ MieIdle /\ ArrIdle
Next == KernelNext
Spec == Init /\ [][Next]_vars

\* one thread of the kernel with main's anisotropy, over the launch positions
\* and the media
InitSeq == KernelInit(1, SeqMoves, {ggMain}, P0Set, MediaSet) /\ MieIdle /\ ArrIdle
SpecSeq == InitSeq /\ [][Next]_vars

\* one thread of the kernel in an isotropic medium: g = 0
InitIso == KernelInit(1, SeqMoves, {0}, P0Set, MediaSet) /\ MieIdle /\ ArrIdle
SpecIso == InitIso /\ [][Next]_vars

\* one call of Mie
KernelIdle == KernelInit(1, 0, {ggMain}, {p0Main}, {mediaMain})
InitMie == KernelIdle /\ MieInit /\ ArrIdle
NextMie == MieNext
SpecMie == InitMie /\ [][NextMie]_vars

\* one call of MiePoly or of WhittleMattern
InitArr == KernelIdle /\ MieIdle /\ ArrInit
NextArr == ArrNext
SpecArr == InitArr /\ [][NextArr]_vars

\* ------------------------------------------------------------------------
\* Properties
\* ------------------------------------------------------------------------
AllDone == \A w \in Workers : pc[w] = "done"
Cells == DOMAIN field \cup DOMAIN deposits

\* C1: once every worker has finished, every fluence cell holds its initial
\* value (0) plus the sum of all the deposits made to it: no deposit is lost.
C1_NoDepositLost ==
    AllDone => \A c \in Cells : FieldAt(c) = DepositsAt(c)

\* C2: every fluence cell is >= 0 and never decreases from one state to the
\* next.
C2_NonDecreasing ==
    [][\A c \in DOMAIN field \cup DOMAIN field' :
           FieldAt(c)' >= FieldAt(c) /\ FieldAt(c)' >= 0]_vars

\* C3: at the voxel step of every micro-step the material read, media[idx1d],
\* is the material of the voxel floor(p) that holds the photon.
C3_MaterialAtPosition ==
    \A w \in Workers :
        pc[w] = "voxel" => MediaAt(idx1d[w]) = MediaAt(VoxelIndex(npos[w]))

\* C4 as stated: on a micro-step that does not relaunch the value added is w
\* exactly when r > 0 after the voxel step, and nothing is added on a
\* micro-step that drew a new free flight.
C4_NoDepositOnDraw ==
    \A w \in Workers :
        pc[w] = "store" =>
            /\ val[w] = (IF nlen[w].x > 0 THEN npos[w].w ELSE 0)
            /\ (drew[w] => val[w] = 0)

\* C4 as amended: the += of a micro-step that does not relaunch writes the
\* value it read plus w when r > 0 after the voxel step and plus 0 otherwise,
\* whether or not the micro-step drew a new free flight; nothing is added on
\* the micro-step whose jump ended inside the voxel.
C4_DepositIffResidual ==
    [][\A w \in Workers :
          (pc[w] = "store" /\ pc'[w] # "store") =>
              /\ FieldAt(idx1d[w])' =
                    fld[w] + (IF nlen[w].x > 0 THEN npos[w].w ELSE 0)
              /\ (nlen[w].x = MINUS_SAME_VOXEL => FieldAt(idx1d[w])' = fld[w])]_vars

\* C4 witness: a micro-step that drew a new free flight is about to add w
C4_Witness ==
    \E w \in Workers :
        pc[w] = "store" /\ drew[w] /\ nlen[w].x > 0 /\ val[w] = npos[w].w /\ val[w] > 0

\* a relaunch of worker w happens in this step
Relaunched(w) == nlen'[w].z = nlen[w].z + 1

\* the position lies outside the box [0, hx] x [0, hy] x [0, hz]
OutsideBox(pos, hx, hy, hz) ==
    \/ FLt(pos.x, 0) \/ FLt(pos.y, 0) \/ FLt(pos.z, 0)
    \/ FGt(pos.x, hx) \/ FGt(pos.y, hy) \/ FGt(pos.z, hz)

\* C5 as stated: after the voxel step the photon is relaunched if and only if
\* r > lmax or its position is outside [0, Nx] x [0, Ny] x [0, Nz], and
\* otherwise it reaches the deposit.
C5_RelaunchOutsideGrid ==
    [][\A w \in Workers :
          (pc[w] = "bound" /\ pc'[w] # "bound") =>
              /\ Relaunched(w) <=>
                    (FGt(nlen[w].x, F(100))
                        \/ OutsideBox(npos[w], F(DIMX), F(DIMY), F(DIMZ)))
              /\ (~ Relaunched(w) => pc'[w] = "store")]_vars

\* C5 as amended: after the voxel step the photon is relaunched if and only
\* if r > lmax or some component of its position is < 0 or > maxidx, that is
\* outside [0, Nx-1] x [0, Ny-1] x [0, Nz-1]; otherwise it reaches the deposit.
C5_RelaunchOutsideMaxidx ==
    [][\A w \in Workers :
          (pc[w] = "bound" /\ pc'[w] # "bound") =>
              /\ Relaunched(w) <=>
                    (FGt(nlen[w].x, F(100))
                        \/ OutsideBox(npos[w], F(DIMX - 1), F(DIMY - 1), F(DIMZ - 1)))
              /\ (~ Relaunched(w) => pc'[w] = "store")]_vars

\* C5 witness: a photon was relaunched and its successor reached the deposit
C5_Witness ==
    \E w \in Workers : nlen[w].z > 0 /\ pc[w] = "store"

\* the sum of the relaunch counters of the workers 1 .. n
RECURSIVE RelaunchSum(_)
RelaunchSum(n) == IF n = 0 THEN 0 ELSE nlen[n].z + RelaunchSum(n - 1)

\* the position is a point of the grid
InGrid(pos) ==
    /\ FLe(0, pos.x) /\ FLe(pos.x, F(DIMX))
    /\ FLe(0, pos.y) /\ FLe(pos.y, F(DIMY))
    /\ FLe(0, pos.z) /\ FLe(pos.z, F(DIMZ))

\* C6: the relaunch counters add up to the relaunches made, and after every
\* micro-step each worker holds a photon that is in the grid, so the counters
\* plus the surviving photons are the photons launched.
C6_RelaunchConservation ==
    /\ RelaunchSum(nworkers) + nworkers = launched
    /\ \A w \in Workers :
          pc[w] \in {"scatter", "exit", "done"} => InGrid(npos[w])

\* C7: with g = 0 the direction after a scattering event is well defined: no
\* component is NaN.
C7_IsotropicDefined ==
    \A w \in Workers :
        (gg = 0 /\ pc[w] = "voxel" /\ hg[w]) =>
            ~ IsNaN(ndir[w].x) /\ ~ IsNaN(ndir[w].y) /\ ~ IsNaN(ndir[w].z)

\* a call of Mie with this x must fail
BadSize == mie_x <= 0 \/ mie_x > F(20000)

\* C8: Mie fails with InvalidInput when x <= 0 and with the other outcome
\* Unvalidated when x > 20000, before small_Mie is called, before anything is
\* allocated and before any output is written.
C8_SizeErrors ==
    /\ InvalidInput # Unvalidated
    /\ BadSize =>
          /\ mie_pc \in {"entry", "check", "failed"}
          /\ ~ mie_small /\ mie_heap = {} /\ mie_out = {}
    /\ mie_pc = "failed" =>
          /\ BadSize
          /\ mie_x <= 0 => mie_err = InvalidInput
          /\ mie_x > F(20000) => mie_err = Unvalidated

\* C8 witness: a call with x > 20000 has failed
C8_Witness ==
    mie_pc = "failed" /\ mie_x > F(20000) /\ mie_err = Unvalidated

\* the call is past the choice of the recurrence
PastRecurrence == mie_pc \in {"loop", "returned"} /\ ~ mie_small

\* |m_i|*x < (13.78*m_r - 10.8)*m_r + 3.9
BelowThreshold ==
    Abs(FMul(mie_m.im, mie_x)) <
        FMul(Rnd(1378 * FUnit, 100), FMul(mie_m.re, mie_m.re))
            - FMul(Rnd(108 * FUnit, 10), mie_m.re) + Rnd(39 * FUnit, 10)

WaterLike == mie_x = F(100) /\ mie_m.re = Rnd(133 * FUnit, 100)

C10_ScatterIffNotFirst ==
    \A w \in Workers :
        (pc[w] = "voxel" /\ drew[w]) => (hg[w] <=> ndraw[w] > 1)

\* the direction d' = (sin(theta)cos(phi), sin(theta)sin(phi), s*cos(theta))
\* with s the sign of the incoming dz, for the random numbers ranP and ranT
PoleDir(ndir0, ranP, ranT) ==
    LET sc     == SinCosPhi(ranP)
        ctheta == HGCosTheta(gg, gg2, ggx2, ranT)
        stheta == SinAcos(ctheta)
    IN  [x |-> FMul(stheta, sc.cphi),
         y |-> FMul(stheta, sc.sphi),
         z |-> IF FLt(ndir0.z, 0) THEN FNeg(ctheta) ELSE ctheta,
         w |-> ndir0.w + 1]

\* C11: a scattering update applied to a direction with |dz| = 1 gives
\* (sin(theta)cos(phi), sin(theta)sin(phi), s*cos(theta)) with s the sign of
\* the incoming dz, whatever random numbers the update drew.
C11_SignMatchesDz ==
    [][\A w \in Workers :
          (/\ pc[w] = "scatter" /\ pc'[w] = "voxel" /\ hg'[w]
           /\ Abs(ndir[w].z) = FUnit)
          => \A ranP \in RanPhiSet, ranT \in RanThetaSet :
                ndir'[w] = ScatterDir(ndir[w], ranP, ranT)
                => ndir'[w] = PoleDir(ndir[w], ranP, ranT)]_vars

\* C12: every element MiePoly and WhittleMattern read or write lies inside
\* its array: the per-angle arrays and the caller's smatrix hold NANGLES
\* elements and are used at the indices 0 .. NANGLES-1 only.
C12_AccessesInExtent ==
    \A a \in sm_acc : a[2] \in 0 .. sm_len[a[1]] - 1

\* C13: with m_r > 0, every entry D[n] a pass of the coefficient loop reads
\* (n = 1 .. nstop) was written before by the recurrence that was selected.
C13_ReadsWrittenD ==
    [][(/\ mie_pc = "loop" /\ mie_n <= nstop /\ mie_n' = mie_n + 1
        /\ FGt(mie_m.re, 0))
       => mie_n \in mie_D]_vars

\* the index idx1d is one of the grid's
IndexInGrid(idx) == idx \in 0 .. DIMXYZ - 1

\* C14: with the launch position inside the grid and maxidx as main sets it,
\* the index idx1d is inside the grid whenever a micro-step reads media[idx1d]
\* or updates field[idx1d]: an index outside the grid computed by a full step
\* is replaced by the launch voxel before it is used.
C14_IndexInRange ==
    \A w \in Workers :
        (\/ pc[w] \in {"scatter", "voxel", "store"}
         \/ (pc[w] = "bound" /\ ~ HitBoundary(npos[w], nlen[w])))
        => IndexInGrid(idx1d[w])

\* C14 witness: a full step has computed an index outside the grid, and the
\* photon is about to be relaunched
C14_Witness ==
    \E w \in Workers :
        /\ pc[w] = "bound"
        /\ ~ IndexInGrid(idx1d[w])
        /\ HitBoundary(npos[w], nlen[w])
        /\ IndexInGrid(idxorig[w])

\* mu_s of the material the voxel step of worker w reads
MuS(w) == gproperty(MediaAt(idx1d[w])).y

\* C15: the residual free flight r is >= 0 at the start of every voxel step,
\* the in-voxel branch, which divides r by mu_s, is taken with mu_s > 0 only,
\* and in vacuum (mu_s = 0) the voxel step is the full step.
C15_ResidualNonNegative ==
    [][\A w \in Workers :
          (pc[w] = "voxel" /\ pc'[w] = "bound")
          => /\ FLe(0, nlen[w].x)
             /\ (nlen'[w].x = MINUS_SAME_VOXEL => FGt(MuS(w), 0))
             /\ (MuS(w) = 0 =>
                    /\ npos'[w] = FullStep(npos[w], ndir[w], nlen[w],
                                           gproperty(MediaAt(idx1d[w]))).npos
                    /\ nlen'[w].x = nlen[w].x
                    /\ IsFinite(npos'[w].x) /\ IsFinite(npos'[w].y)
                    /\ IsFinite(npos'[w].z))]_vars

\* C15 witness: a photon in vacuum has drawn the free flight r = 0, has taken
\* the full step with it and is at its next voxel step
C15_Witness ==
    \E w \in Workers :
        /\ pc[w] = "voxel"
        /\ MuS(w) = 0
        /\ nlen[w].x = 0
        /\ nlen[w].y >= minstep
        /\ npos[w].w = F(1)

====
